---- MODULE Spec2Model ----
(***************************************************************************)
(* A model of the eBay unsold-items analyzer (src/main.py): the CSV        *)
(* loader, item-number normalisation, the sold/unsold classification of   *)
(* process_ebay_data, and the Streamlit script that stores the results in  *)
(* the session state and offers them for download.                        *)
(*                                                                         *)
(* Text is modelled as a sequence of one-character strings.  Time is in    *)
(* seconds.                                                                *)
(***************************************************************************)
EXTENDS Integers, Sequences, FiniteSets, TLC

VARIABLES
    listing_file,   \* st.file_uploader value: the uploaded listing CSV, or NoFile
    order_file,     \* st.file_uploader value: the uploaded order CSV, or NoFile
    session_state,  \* st.session_state: [sold_df, unsold_df]
    event,          \* the interaction that caused the latest script run
    ret,            \* what process_ebay_data did in the latest script run
    now,            \* the latest reading of datetime.now()
    served,         \* the artifact handed out by the latest script run (download click)
    last_success,   \* history: the return value of the most recent successful run
    previous,       \* history: the session state when the latest script run began
    item_cell,      \* normalisation pipeline: the raw text of an 'Item number' cell
    item_number     \* normalisation pipeline: the normalised identifier

vars == <<listing_file, order_file, session_state, event, ret, now, served,
          last_success, previous, item_cell, item_number>>

----------------------------------------------------------------------------
(* Bounds of the model. *)

\* longest raw cell text explored by the normalisation pipeline
MaxCellLen == 3

\* rows in the two uploaded files together, for the runs of process_ebay_data
MaxRows == 2

\* rows of one uploaded file in the interactive application
MaxUploadRows == 1

----------------------------------------------------------------------------
(* Text and numbers. *)

Digits == <<"0", "1", "2", "3", "4", "5", "6", "7", "8", "9">>

DigitChars == {Digits[i] : i \in 1..10}

\* the characters raw cell text is built from: digits, the decimal point,
\* and a letter that no number contains
Chars == {"0", "1", "5", ".", "x"}

DigitVal(c) == (CHOOSE i \in 1..10 : Digits[i] = c) - 1

RECURSIVE Pow10(_)
Pow10(k) == IF k = 0 THEN 1 ELSE 10 * Pow10(k - 1)

RECURSIVE DigitsVal(_)
DigitsVal(s) ==
    IF s = <<>> THEN 0
    ELSE 10 * DigitsVal(SubSeq(s, 1, Len(s) - 1)) + DigitVal(s[Len(s)])

RECURSIVE IntToStr(_)
IntToStr(n) ==
    IF n < 10 THEN <<Digits[n + 1]>>
    ELSE IntToStr(n \div 10) \o <<Digits[(n % 10) + 1]>>

AllDigits(s) == \A i \in 1..Len(s) : s[i] \in DigitChars

DotPositions(s) == {i \in 1..Len(s) : s[i] = "."}

\* Python values an 'Item number' cell can hold
PyStr(s) == [type |-> "str", s |-> s]
PyNone == [type |-> "NoneType", s |-> <<>>]
NaN == [type |-> "float", s |-> <<>>]

\* the exception float() raises on text that is no number
ValueError == <<"ValueError">>

\* float(text): the value as a fraction num/den, or ValueError
float(s) ==
    LET dots == DotPositions(s)
        d == CHOOSE i \in dots : TRUE
        ip == SubSeq(s, 1, d - 1)
        fp == SubSeq(s, d + 1, Len(s))
    IN  IF dots = {} THEN
            IF s # <<>> /\ AllDigits(s)
            THEN [ok |-> TRUE, num |-> DigitsVal(s), den |-> 1]
            ELSE [ok |-> FALSE, num |-> 0, den |-> 1]
        ELSE IF Cardinality(dots) = 1 /\ AllDigits(ip) /\ AllDigits(fp)
                /\ Len(ip) + Len(fp) > 0
            THEN [ok |-> TRUE,
                  num |-> DigitsVal(ip) * Pow10(Len(fp)) + DigitsVal(fp),
                  den |-> Pow10(Len(fp))]
            ELSE [ok |-> FALSE, num |-> 0, den |-> 1]

\* '{:.0f}'.format(x) for a finite x >= 0: round half to even, no decimal point
Format0f(x) ==
    LET q == x.num \div x.den
        r == x.num % x.den
        n == IF 2 * r < x.den THEN q
             ELSE IF 2 * r > x.den THEN q + 1
             ELSE IF q % 2 = 0 THEN q ELSE q + 1
    IN  IntToStr(n)

\* '{:.0f}'.format(float('nan'))
NanText == <<"n", "a", "n">>

\* bool(v) of a cell value
Truthy(v) ==
    CASE v.type = "NoneType" -> FALSE
      [] v.type = "str" -> v.s # <<>>
      [] v.type = "float" -> TRUE

\* format_item_number: the normalised text, or ValueError
format_item_number(v) ==
    IF ~Truthy(v) THEN <<>>
    ELSE IF v.type = "float" THEN NanText
    ELSE IF float(v.s).ok THEN Format0f(float(v.s)) ELSE ValueError

\* pd.read_csv on one cell of a dtype=str column: an empty field is a
\* missing value (NaN), any other text is kept as it is
read_item_cell(text) == IF text = <<>> THEN NaN ELSE PyStr(text)

----------------------------------------------------------------------------
(* Uploaded files and the tables read from them. *)

\* timedelta(days=d), in seconds
timedelta(d) == d * 24 * 60 * 60

\* the clock when the application starts
StartTime == timedelta(60) + 1

\* readings of datetime.now()
NowValues == {StartTime, StartTime + 1}

\* timestamps within one second of the first cutoff (now - 60 days)
Times == {StartTime - timedelta(60) + d : d \in {-1, 0, 1}}

\* a date cell: text that denotes the instant t, or text that denotes none
DateCell(t) == [ok |-> TRUE, t |-> t]
BadDate == [ok |-> FALSE, t |-> 0]
DateCells == {BadDate} \cup {DateCell(t) : t \in Times}

\* an 'Available quantity' cell: a number, or an empty field
QtyCell(v) == [nan |-> FALSE, v |-> v]
NoQty == [nan |-> TRUE, v |-> 0]
QtyCells == {NoQty, QtyCell(0), QtyCell(1)}

\* raw 'Item number' cells of the uploaded files
ItemCells == {<<>>, <<"1">>, <<"1", ".", "0">>, <<"x">>}

OrderRows == [item : ItemCells, date : DateCells]
ListingRows == [item : ItemCells, date : DateCells, qty : QtyCells]

expected_order_columns == <<"Item number", "Sale date">>
expected_listing_columns == <<"Item number", "Start date", "Available quantity">>

SeqSet(s) == {s[i] : i \in 1..Len(s)}

SeqsUpTo(S, n) == UNION {[1..k -> S] : k \in 0..n}

NoFile == [present |-> FALSE, readable |-> FALSE, columns |-> {}, rows |-> <<>>]

\* a well-formed CSV with the given header (for the order file: the header
\* found after the skipped first line) and rows
CsvFile(columns, rows) ==
    [present |-> TRUE, readable |-> TRUE, columns |-> columns, rows |-> rows]

\* content pd.read_csv cannot parse
GarbledFile == [present |-> TRUE, readable |-> FALSE, columns |-> {}, rows |-> <<>>]

\* files that lack one required column
LackingFiles(expected) ==
    {CsvFile(SeqSet(expected) \ {c}, <<>>) : c \in SeqSet(expected)}

OrderFiles(n) ==
    {CsvFile(SeqSet(expected_order_columns), r) : r \in SeqsUpTo(OrderRows, n)}

ListingFiles(n) ==
    {CsvFile(SeqSet(expected_listing_columns), r) : r \in SeqsUpTo(ListingRows, n)}

BadOrderFiles == {GarbledFile} \cup LackingFiles(expected_order_columns)

BadListingFiles == {GarbledFile} \cup LackingFiles(expected_listing_columns)

\* st.error messages
MissingColumnsError(cols) == [kind |-> "Missing expected columns", columns |-> cols]
ReadError == [kind |-> "Error reading the CSV file", columns |-> <<>>]

\* read_csv_filtered: the table, or None with the message it reports
read_csv_filtered(file, expected_columns) ==
    LET missing_columns ==
            SelectSeq(expected_columns, LAMBDA col : col \notin file.columns)
    IN  IF ~file.readable
        THEN [none |-> TRUE, rows |-> <<>>, errors |-> <<ReadError>>]
        ELSE IF missing_columns # <<>>
        THEN [none |-> TRUE, rows |-> <<>>,
              errors |-> <<MissingColumnsError(missing_columns)>>]
        ELSE [none |-> FALSE, rows |-> file.rows, errors |-> <<>>]

\* pd.to_datetime(..., errors='coerce'): a timestamp, or NaT
NaT == [nat |-> TRUE, t |-> 0]
Timestamp(t) == [nat |-> FALSE, t |-> t]
to_datetime(cell) == IF cell.ok THEN Timestamp(cell.t) ELSE NaT

\* variants of the comparisons: the boundary instant let through, and NaT
\* taken for an old date
DateGt_orEqual(d, t) == ~d.nat /\ d.t >= t
DateLt_orEqual(d, t) == ~d.nat /\ d.t <= t
DateLt_orNaT(d, t) == d.nat \/ d.t < t

\* comparisons of a column value with a datetime; NaT compares False
DateGt(d, t) == ~d.nat /\ d.t > t
DateLt(d, t) == ~d.nat /\ d.t < t

\* available_quantity > 0; NaN compares False
QtyPositive(q) == ~q.nan /\ q.v > 0

\* column.apply(format_item_number) on the 'Item number' column as read
apply_format_item_number(rows) ==
    [i \in 1..Len(rows) |->
        [rows[i] EXCEPT !.item = format_item_number(read_item_cell(rows[i].item))]]

AnyValueError(rows) == \E i \in 1..Len(rows) : rows[i].item = ValueError

\* the column parsed by pd.to_datetime
apply_to_datetime(rows) ==
    [i \in 1..Len(rows) |-> [rows[i] EXCEPT !.date = to_datetime(rows[i].date)]]

\* order_data.dropna(subset=['Sale date'])
dropna(rows) == SelectSeq(rows, LAMBDA r : ~r.date.nat)

----------------------------------------------------------------------------
(* process_ebay_data *)

None == [none |-> TRUE, column |-> "", rows |-> <<>>]
DataFrame(rows, column) == [none |-> FALSE, column |-> column, rows |-> rows]

\* list(a_set): the elements once each, in an order the set chooses
ListsOf(S) ==
    {f \in [1..Cardinality(S) -> S] : \A i, j \in DOMAIN f : i # j => f[i] # f[j]}

\* recent_sales and sold_items
recent_sales(order_data, sixty_days_ago) ==
    SelectSeq(order_data, LAMBDA r : DateGt(r.date, sixty_days_ago))

\* variant: every order row counts as a recent sale
sold_items_of_all(order_data, sixty_days_ago) ==
    {r.item : r \in SeqSet(order_data)}

sold_items_of(order_data, sixty_days_ago) ==
    {r.item : r \in SeqSet(recent_sales(order_data, sixty_days_ago))}

\* variant: the sold set is not consulted
IsUnsold_ignoring_sold(row, sold_items, sixty_days_ago) ==
    /\ QtyPositive(row.qty)
    /\ DateLt(row.date, sixty_days_ago)

\* the test of the loop over the listing rows
IsUnsold(row, sold_items, sixty_days_ago) ==
    /\ row.item \notin sold_items
    /\ QtyPositive(row.qty)
    /\ DateLt(row.date, sixty_days_ago)

\* the loop over listing_data.iterrows(), from row `index` on
RECURSIVE unsold_loop(_, _, _, _, _)
unsold_loop(listing_data, index, sold_items, sixty_days_ago, unsold_items) ==
    IF index > Len(listing_data) THEN unsold_items
    ELSE unsold_loop(listing_data, index + 1, sold_items, sixty_days_ago,
            IF IsUnsold(listing_data[index], sold_items, sixty_days_ago)
            THEN Append(unsold_items, listing_data[index].item)
            ELSE unsold_items)

NotRun ==
    [status |-> "not run", sold_df |-> None, unsold_df |-> None, errors |-> <<>>,
     read_clock |-> FALSE]

Returned(sold_df, unsold_df, errors, read_clock) ==
    [status |-> "returned", sold_df |-> sold_df, unsold_df |-> unsold_df,
     errors |-> errors, read_clock |-> read_clock]

\* an exception leaves process_ebay_data: nothing is returned
Raised ==
    [status |-> "raised", sold_df |-> None, unsold_df |-> None, errors |-> <<>>,
     read_clock |-> FALSE]

\* process_ebay_data(listing_file, order_file) when datetime.now() reads
\* `clock`: the outcomes the call can have
process_ebay_data(listing, order, clock) ==
    LET order_read == read_csv_filtered(order, expected_order_columns)
        order_fmt == apply_format_item_number(order_read.rows)
        order_data == dropna(apply_to_datetime(order_fmt))
        listing_read == read_csv_filtered(listing, expected_listing_columns)
        listing_fmt == apply_format_item_number(listing_read.rows)
        listing_data == apply_to_datetime(listing_fmt)
        sixty_days_ago == clock - timedelta(60)
        sold_items == sold_items_of(order_data, sixty_days_ago)
        unsold_items == unsold_loop(listing_data, 1, sold_items, sixty_days_ago, <<>>)
    IN  IF order_read.none
        THEN {Returned(None, None, order_read.errors, FALSE)}
        ELSE IF AnyValueError(order_fmt) THEN {Raised}
        ELSE IF listing_read.none
        THEN {Returned(None, None, listing_read.errors, FALSE)}
        ELSE IF AnyValueError(listing_fmt) THEN {Raised}
        ELSE {Returned(DataFrame(l, "Sold Item Numbers"),
                       DataFrame(unsold_items, "Unsold Item Numbers"), <<>>, TRUE) :
                l \in ListsOf(sold_items)}

----------------------------------------------------------------------------
(* The Streamlit script: every interaction runs it from top to bottom. *)

\* df.to_csv(index=False): the header line and one line per row
to_csv(df) == [header |-> df.column, lines |-> df.rows]

NoArtifact == [file_name |-> "", data |-> to_csv(None)]

\* get_download_link: the download button and what a click on it hands out
get_download_link(df, filename) == [file_name |-> filename, data |-> to_csv(df)]

\* variant: the button is rendered as soon as one file is there
ButtonShown_either == listing_file.present \/ order_file.present

\* the "Process Data" button is rendered
ButtonShown == listing_file.present /\ order_file.present

\* the two download buttons are rendered: the script run reached its last
\* lines (no exception ended it) and both stored results are there
DownloadsShown ==
    /\ ret.status # "raised"
    /\ ~session_state.sold_df.none
    /\ ~session_state.unsold_df.none

\* the test that guards the two session-state assignments
BothResults(out) ==
    out.status = "returned" /\ ~out.sold_df.none /\ ~out.unsold_df.none

\* variants: whatever was returned is stored; new rows are added to the old
StoreResults_always(state, out) ==
    [sold_df |-> out.sold_df, unsold_df |-> out.unsold_df]

StoreResults_adding(state, out) ==
    IF BothResults(out)
    THEN [sold_df |-> [out.sold_df EXCEPT !.rows = state.sold_df.rows \o @],
          unsold_df |-> [out.unsold_df EXCEPT !.rows = state.unsold_df.rows \o @]]
    ELSE state

\* the session state after a call of process_ebay_data
StoreResults(state, out) ==
    IF BothResults(out)
    THEN [sold_df |-> out.sold_df, unsold_df |-> out.unsold_df]
    ELSE state

\* item_number before the normalisation pipeline has run
Pending == <<"pending">>

\* rows of the files the user uploads in the interactive application: an
\* identifier or text that is none, a date on either side of the cutoff,
\* one item available
UploadItemCells == {<<"1">>, <<"x">>}

UploadDateCells == {DateCell(StartTime - timedelta(60) + d) : d \in {-1, 1}}

UploadOrderRows == [item : UploadItemCells, date : UploadDateCells]

UploadListingRows ==
    [item : UploadItemCells, date : UploadDateCells, qty : {QtyCell(1)}]

UploadableOrders ==
    {CsvFile(SeqSet(expected_order_columns), r) :
        r \in SeqsUpTo(UploadOrderRows, MaxUploadRows)} \cup BadOrderFiles

UploadableListings ==
    {CsvFile(SeqSet(expected_listing_columns), r) :
        r \in SeqsUpTo(UploadListingRows, MaxUploadRows)} \cup BadListingFiles

\* a script run that does not call process_ebay_data
PlainRun(e) ==
    /\ event' = e
    /\ ret' = NotRun
    /\ served' = NoArtifact
    /\ previous' = session_state
    /\ UNCHANGED <<session_state, now, last_success, item_cell, item_number>>

UploadListing ==
    \E f \in UploadableListings :
        /\ listing_file' = f
        /\ UNCHANGED order_file
        /\ PlainRun("upload listing")

UploadOrder ==
    \E f \in UploadableOrders :
        /\ order_file' = f
        /\ UNCHANGED listing_file
        /\ PlainRun("upload order")

RemoveListing ==
    /\ listing_file.present
    /\ listing_file' = NoFile
    /\ UNCHANGED order_file
    /\ PlainRun("remove listing")

RemoveOrder ==
    /\ order_file.present
    /\ order_file' = NoFile
    /\ UNCHANGED listing_file
    /\ PlainRun("remove order")

\* a click on "Process Data"
ClickProcess ==
    /\ ButtonShown
    /\ \E clock \in NowValues :
        /\ clock >= now
        /\ \E out \in process_ebay_data(listing_file, order_file, clock) :
            /\ ret' = out
            /\ now' = IF out.read_clock THEN clock ELSE now
            /\ session_state' = StoreResults(session_state, out)
            /\ last_success' = IF BothResults(out) THEN out ELSE last_success
    /\ event' = "process"
    /\ served' = NoArtifact
    /\ previous' = session_state
    /\ UNCHANGED <<listing_file, order_file, item_cell, item_number>>

\* a click on one of the download buttons
ClickDownload ==
    /\ DownloadsShown
    /\ \E which \in {"sold_items.csv", "unsold_items.csv"} :
        served' = get_download_link(
                    IF which = "sold_items.csv" THEN session_state.sold_df
                    ELSE session_state.unsold_df, which)
    /\ event' = "download"
    /\ ret' = NotRun
    /\ previous' = session_state
    /\ UNCHANGED <<listing_file, order_file, session_state, now, last_success,
                   item_cell, item_number>>

\* the normalisation pipeline on one raw cell
Normalize ==
    /\ item_number = Pending
    /\ item_cell \in SeqsUpTo(Chars, MaxCellLen)
    /\ item_number' = format_item_number(read_item_cell(item_cell))
    /\ UNCHANGED <<listing_file, order_file, session_state, event, ret, now,
                   served, last_success, previous, item_cell>>

\* the state the script's first run leaves, before any upload
Fresh ==
    /\ session_state = [sold_df |-> None, unsold_df |-> None]
    /\ event = "start"
    /\ ret = NotRun
    /\ now = StartTime
    /\ served = NoArtifact
    /\ last_success = NotRun
    /\ previous = session_state

Init ==
    /\ listing_file = NoFile
    /\ order_file = NoFile
    /\ Fresh
    /\ item_cell = <<>>
    /\ item_number = Pending

Next ==
    \/ UploadListing
    \/ UploadOrder
    \/ RemoveListing
    \/ RemoveOrder
    \/ ClickProcess
    \/ ClickDownload

\* the interactive application
Spec == Init /\ [][Next]_vars

\* order files with exactly k rows; a file that fails to load counts as empty
OrderFilesOfLen(k) ==
    {CsvFile(SeqSet(expected_order_columns), r) : r \in [1..k -> OrderRows]}
        \cup (IF k = 0 THEN BadOrderFiles ELSE {})

\* pairs of files with at most MaxRows rows together
FilePairs ==
    UNION {OrderFilesOfLen(k) \X (ListingFiles(MaxRows - k) \cup BadListingFiles) :
            k \in 0..MaxRows}

InitProcess ==
    /\ \E pair \in FilePairs :
        /\ order_file = pair[1]
        /\ listing_file = pair[2]
    /\ Fresh
    /\ item_cell = <<>>
    /\ item_number = Pending

\* one run of process_ebay_data on every pair of files
SpecProcess == InitProcess /\ [][ClickProcess]_vars

InitFormat ==
    /\ listing_file = NoFile
    /\ order_file = NoFile
    /\ Fresh
    /\ item_cell \in SeqsUpTo(Chars, MaxCellLen)
    /\ item_number = Pending

\* the normalisation pipeline on every raw cell
SpecFormat == InitFormat /\ [][Normalize]_vars

----------------------------------------------------------------------------
(* What the claims speak of. *)

\* the normalised identifier of a raw 'Item number' cell of a file
Norm(cell) == format_item_number(read_item_cell(cell))

\* the cutoff of the latest run that read the clock
Cutoff == now - timedelta(60)

\* the file loads: it parses and has the required columns
Validates(file, expected) ==
    file.present /\ file.readable /\ SeqSet(expected) \subseteq file.columns

BothValidate ==
    /\ Validates(order_file, expected_order_columns)
    /\ Validates(listing_file, expected_listing_columns)

\* every 'Item number' cell is empty or a number
ItemsNumeric(file) ==
    \A i \in 1..Len(file.rows) : Norm(file.rows[i].item) # ValueError

Ran == event = "process"

Succeeded == Ran /\ BothResults(ret)

SoldSet == SeqSet(ret.sold_df.rows)

\* a listing row qualifies as unsold against a sold set
Qualifies(r, sold) ==
    /\ Norm(r.item) \notin sold
    /\ ~r.qty.nan /\ r.qty.v > 0
    /\ r.date.ok /\ r.date.t < Cutoff

\* the identifiers of the qualifying rows, in file order
ExpectedUnsold(rows, sold) ==
    LET q == SelectSeq(rows, LAMBDA r : Qualifies(r, sold))
    IN  [i \in 1..Len(q) |-> Norm(q[i].item)]

\* an order row is a sale after the cutoff
RecentSale(r) == r.date.ok /\ r.date.t > Cutoff

\* C1: for every pair of files that both validate, the Sold set and the
\* Unsold sequence returned by process_ebay_data share no identifier.
C1_SoldUnsoldDisjoint ==
    Succeeded => SoldSet \cap SeqSet(ret.unsold_df.rows) = {}

\* C1 witness: a run returned results and a listing row that is available
\* and old enough was kept out of Unsold because its identifier was sold.
C1_Witness ==
    /\ Succeeded
    /\ ret.unsold_df.rows = <<>>
    /\ \E i \in 1..Len(listing_file.rows) :
        /\ Qualifies(listing_file.rows[i], {})
        /\ Norm(listing_file.rows[i].item) \in SoldSet

\* C2: the Unsold sequence is exactly the normalised identifiers, in file
\* order and with repetitions, of the listing rows that are not sold, have
\* available quantity > 0 and start strictly before the cutoff.
C2_UnsoldIsFilteredListing ==
    Succeeded => ret.unsold_df.rows = ExpectedUnsold(listing_file.rows, SoldSet)

\* C2 witness: an identifier listed twice and qualifying twice is in Unsold
\* twice.
C2_Witness ==
    /\ Succeeded
    /\ Len(ret.unsold_df.rows) = 2
    /\ ret.unsold_df.rows[1] = ret.unsold_df.rows[2]

\* C3: the Sold output holds, once each, exactly the normalised identifiers
\* of the order rows whose sale date parses and is strictly after the
\* cutoff; rows with an unparseable sale date cause no error.
C3_SoldIsRecentOrders ==
    /\ Succeeded =>
        /\ SoldSet = {Norm(r.item) : r \in {x \in SeqSet(order_file.rows) : RecentSale(x)}}
        /\ Len(ret.sold_df.rows) = Cardinality(SoldSet)
    /\ (Ran /\ BothValidate /\ ItemsNumeric(order_file) /\ ItemsNumeric(listing_file))
        => (BothResults(ret) /\ ret.errors = <<>>)

\* C3 witness: an order file with a row whose sale date does not parse and
\* a recent sale gave a Sold set with the recent sale only.
C3_Witness ==
    /\ Succeeded
    /\ Len(order_file.rows) = 2
    /\ ~order_file.rows[1].date.ok
    /\ Norm(order_file.rows[1].item) # Norm(order_file.rows[2].item)
    /\ ret.sold_df.rows = <<Norm(order_file.rows[2].item)>>

\* the sale dates of the order rows that carry identifier id
SaleTimes(id) ==
    {r.date.t : r \in {x \in SeqSet(order_file.rows) : x.date.ok /\ Norm(x.item) = id}}

\* C4 as stated: a sale exactly 60 days and 1 second before now is in the
\* Sold set, and a sale exactly 60 days before now is not.
C4_AsStated ==
    Succeeded =>
        \A i \in 1..Len(order_file.rows) :
            LET r == order_file.rows[i]
            IN  /\ (r.date.ok /\ r.date.t = now - timedelta(60) - 1)
                    => Norm(r.item) \in SoldSet
                /\ (r.date.ok /\ SaleTimes(Norm(r.item)) = {now - timedelta(60)})
                    => Norm(r.item) \notin SoldSet

\* C4 amended: a sale 1 second less than 60 days before now is in the Sold
\* set; an identifier whose sales are all exactly 60 days, or 60 days and 1
\* second, before now is not.
C4_StrictBoundary ==
    Succeeded =>
        \A i \in 1..Len(order_file.rows) :
            LET r == order_file.rows[i]
            IN  /\ (r.date.ok /\ r.date.t = now - timedelta(60) + 1)
                    => Norm(r.item) \in SoldSet
                /\ (r.date.ok /\ SaleTimes(Norm(r.item))
                        \subseteq {now - timedelta(60), now - timedelta(60) - 1})
                    => Norm(r.item) \notin SoldSet

\* C4 witness: one order file with a sale just inside the window, which is
\* in Sold, and a sale of another identifier exactly at the cutoff, which
\* is not.
C4_Witness ==
    /\ Succeeded
    /\ Len(order_file.rows) = 2
    /\ order_file.rows[1].date = DateCell(now - timedelta(60) + 1)
    /\ order_file.rows[2].date = DateCell(now - timedelta(60))
    /\ Norm(order_file.rows[1].item) \in SoldSet
    /\ Norm(order_file.rows[2].item) \notin SoldSet

\* C5 as stated: when a file lacks a required column or does not parse,
\* process_ebay_data reports an error message and returns (None, None).
C5_FailureReturnsNonePair ==
    (Ran /\ ~BothValidate) =>
        /\ ret.status = "returned"
        /\ ret.sold_df.none /\ ret.unsold_df.none
        /\ ret.errors # <<>>

\* C6: a run that fails leaves the stored Sold and Unsold results as they
\* were before the run; after a run that reported a schema or parse error
\* the downloads are offered exactly if an earlier run succeeded.
C6_FailedRunKeepsResults ==
    [][(event' = "process" /\ ~BothResults(ret'))
        => /\ session_state' = session_state
           /\ ret'.status = "returned" =>
                /\ ret'.errors # <<>>
                /\ DownloadsShown' <=> BothResults(last_success)]_vars

\* C6 witness: a run failed while results of an earlier run were stored.
C6_Witness ==
    /\ Ran
    /\ ret.status = "returned"
    /\ ret.errors # <<>>
    /\ DownloadsShown
    /\ session_state = previous

\* C7: the stored results are exactly those of the most recent successful
\* run; a successful run replaces both stored results.
C7_StoredIsLatestSuccess ==
    /\ session_state.sold_df = last_success.sold_df
    /\ session_state.unsold_df = last_success.unsold_df
    /\ Succeeded =>
        /\ last_success = ret
        /\ session_state = [sold_df |-> ret.sold_df, unsold_df |-> ret.unsold_df]

\* C7 witness: a successful run replaced stored results that held an
\* identifier by results that do not hold it.
C7_Witness ==
    /\ Succeeded
    /\ ~previous.sold_df.none
    /\ previous.sold_df.rows # <<>>
    /\ session_state.sold_df.rows = <<>>
    /\ session_state.unsold_df.rows = <<>>

\* C8: process_ebay_data runs only on a click on the process button with
\* both files uploaded; downloads are offered only after a successful run;
\* the stored Sold and Unsold results are both absent or both present.
C8_ControlsGuarded ==
    /\ ret.status # "not run" => Ran
    /\ Ran => (listing_file.present /\ order_file.present)
    /\ (DownloadsShown \/ event = "download") => BothResults(last_success)
    /\ session_state.sold_df.none <=> session_state.unsold_df.none

\* C8 witness: a download was taken after a successful run while a file is
\* missing, so that the process button is not offered.
C8_Witness ==
    /\ event = "download"
    /\ served.file_name = "unsold_items.csv"
    /\ ~ButtonShown

\* the integer n is the value num/den rounded to the nearest integer
NearestInteger(n, x) ==
    LET diff == IF x.num >= n * x.den THEN x.num - n * x.den ELSE n * x.den - x.num
    IN  2 * diff <= x.den

\* C9 as stated: an empty cell normalises to the empty string, any number
\* to the decimal digits of its value without a decimal point, and so a
\* number written with and without a trailing ".0" normalises alike.
C9_NormalizationAsStated ==
    item_number # Pending =>
        /\ item_cell = <<>> => item_number = <<>>
        /\ float(item_cell).ok =>
            /\ AllDigits(item_number)
            /\ NearestInteger(DigitsVal(item_number), float(item_cell))
        /\ (item_cell # <<>> /\ AllDigits(item_cell)) =>
            Norm(item_cell \o <<".", "0">>) = item_number

\* C10: a listing row whose start date does not parse is never in Unsold
\* and does not make the run fail.
C10_UnparsedStartDateSkipped ==
    /\ Succeeded =>
        ret.unsold_df.rows =
            ExpectedUnsold(SelectSeq(listing_file.rows, LAMBDA r : r.date.ok), SoldSet)
    /\ (Ran /\ BothValidate /\ ItemsNumeric(order_file) /\ ItemsNumeric(listing_file))
        => BothResults(ret)

\* C10 witness: a run succeeded on a listing with an available, unsold row
\* whose start date does not parse, and put only the other row in Unsold.
C10_Witness ==
    /\ Succeeded
    /\ Len(listing_file.rows) = 2
    /\ ~listing_file.rows[1].date.ok
    /\ QtyPositive(listing_file.rows[1].qty)
    /\ Norm(listing_file.rows[1].item) \notin SoldSet
    /\ Norm(listing_file.rows[1].item) # Norm(listing_file.rows[2].item)
    /\ ret.unsold_df.rows = <<Norm(listing_file.rows[2].item)>>

====
